---------------------------- MODULE Spec2Model ----------------------------
(***************************************************************************)
(* A model of CLEN (src/src/clen.c): the text scanners, the word-at-a-time *)
(* fastStrLen, and main's option parsing and per-argument reporting.       *)
(*                                                                         *)
(* Bytes are their ASCII codes (0..255).  A C string is the sequence of    *)
(* its bytes before the terminating null; a char pointer into it is the    *)
(* 0-based offset from its first byte.                                     *)
(***************************************************************************)
EXTENDS Integers, Sequences, FiniteSets, TLC

VARIABLES
    \* ---- one call of a scanner (countLetters .. countCases) ----
    scanner,        \* which scanner is running
    S,              \* the argument text (bytes before the null)
    st,             \* the scanner's locals: str, count, inWord, upper, lower
    spc,            \* "scan" | "done"
    \* ---- one call of fastStrLen ----
    mem,            \* memory from an 8-byte aligned base address on
    start,          \* offset of the string's first byte in mem
    ls,             \* fastStrLen's position and locals: pc, str, wordPtr,
                    \* chunk, and the value returned
    \* ---- one run of main ----
    argv,           \* argv[1..argc-1]
    pc,             \* "start" | "parse" | "count" | "process" | "exit"
    flags,          \* the nine count*Flag locals
    firstArgIndex,
    i,
    stdout,         \* kinds of the blocks printed to standard output
    stderr,         \* arguments named in "Unknown option" messages
    reports,        \* the per-argument reports printed so far
    status          \* exit status, "running" before the return

scanVars == <<scanner, S, st, spc>>
lenVars  == <<mem, start, ls>>
mainVars == <<argv, pc, flags, firstArgIndex, i, stdout, stderr, reports, status>>
vars     == <<scanner, S, st, spc, mem, start, ls,
              argv, pc, flags, firstArgIndex, i, stdout, stderr, reports, status>>

-----------------------------------------------------------------------------
(* Bounds *)

MaxQuoteLen == 6
MaxSentLen == 4
MaxWordLen == 4
MaxScanLen == 3
MaxStrLen == 9
MaxArgs == 3

\* All byte strings over alphabet A of length at most n.
Strings(A, n) == UNION {[1..k -> A] : k \in 0..n}

-----------------------------------------------------------------------------
(* <ctype.h> in the "C" locale (the program never calls setlocale).  Bytes  *)
(* of 0x80 and above belong to no class.                                   *)

isupper(c) == c \in 65..90
islower(c) == c \in 97..122
isalpha(c) == isupper(c) \/ islower(c)
isdigit(c) == c \in 48..57
isspace(c) == c = 32 \/ c \in 9..13

\* const char *special = "!@#$%^&*()-_=+[]{}|;:'\",.<>?/\\~`";
special ==
    <<33, 64, 35, 36, 37, 94, 38, 42, 40, 41, 45, 95, 61, 43, 91, 93, 123,
      125, 124, 59, 58, 39, 34, 44, 46, 60, 62, 63, 47, 92, 126, 96>>

\* strchr(s, c) != NULL, for c # 0
strchr(s, c) == \E k \in 1..Len(s) : s[k] = c

-----------------------------------------------------------------------------
(* The scanners.  Each XStep is one iteration of X's outer while loop.     *)

\* *(str + off) for a string s: the byte at 0-based offset p, the null at
\* offset Len(s).  No scanner reads past the null (part of C10).
At(s, p) == IF p < Len(s) THEN s[p + 1] ELSE 0

ScanInit == [str |-> 0, count |-> 0, inWord |-> 0, upper |-> 0, lower |-> 0]

LettersStep(s, t) ==
    [t EXCEPT !.count = IF isalpha(At(s, t.str)) THEN @ + 1 ELSE @,
              !.str = @ + 1]

NumbersStep(s, t) ==
    [t EXCEPT !.count = IF isdigit(At(s, t.str)) THEN @ + 1 ELSE @,
              !.str = @ + 1]

\* A mutant: the byte after a terminator is skipped when it is a quote or
\* another terminator.
SentencesStep_skipTerminator(s, t) ==
    IF At(s, t.str) \in {46, 63, 33}
    THEN [t EXCEPT !.count = @ + 1,
                   !.str = IF At(s, t.str + 1) \in {39, 34, 46, 63, 33}
                           THEN @ + 2 ELSE @ + 1]
    ELSE [t EXCEPT !.str = @ + 1]

\* A mutant: the byte after a terminator is always skipped.
SentencesStep_skipAlways(s, t) ==
    IF At(s, t.str) \in {46, 63, 33}
    THEN [t EXCEPT !.count = @ + 1, !.str = @ + 2]
    ELSE [t EXCEPT !.str = @ + 1]

SentencesStep(s, t) ==
    IF At(s, t.str) \in {46, 63, 33}                 \* '.', '?', '!'
    THEN [t EXCEPT !.count = @ + 1,
                   !.str = IF At(s, t.str + 1) \in {39, 34}   \* '\'', '"'
                           THEN @ + 2 ELSE @ + 1]
    ELSE [t EXCEPT !.str = @ + 1]

SpecialStep(s, t) ==
    [t EXCEPT !.count = IF strchr(special, At(s, t.str)) THEN @ + 1 ELSE @,
              !.str = @ + 1]

\* A mutant: inWord is never cleared on whitespace.
WordsStep_neverLeaves(s, t) ==
    IF ~isspace(At(s, t.str))
    THEN IF t.inWord = 0
         THEN [t EXCEPT !.count = @ + 1, !.inWord = 1, !.str = @ + 1]
         ELSE [t EXCEPT !.str = @ + 1]
    ELSE [t EXCEPT !.str = @ + 1]

WordsStep(s, t) ==
    IF ~isspace(At(s, t.str))
    THEN IF t.inWord = 0
         THEN [t EXCEPT !.count = @ + 1, !.inWord = 1, !.str = @ + 1]
         ELSE [t EXCEPT !.str = @ + 1]
    ELSE [t EXCEPT !.inWord = 0, !.str = @ + 1]

\* The inner loop of countQuotes: while (*temp && *temp != quote) temp++;
RECURSIVE FindClose(_, _, _)
FindClose(s, temp, quote) ==
    IF At(s, temp) # 0 /\ At(s, temp) # quote
    THEN FindClose(s, temp + 1, quote)
    ELSE temp

\* A mutant: a segment is counted but str is not moved to the closing quote.
QuotesStep_noSkip(s, t) ==
    IF At(s, t.str) \in {34, 39}
    THEN LET quote == At(s, t.str)
             temp  == FindClose(s, t.str + 1, quote)
         IN  IF At(s, temp) = quote
             THEN [t EXCEPT !.count = @ + 1, !.str = @ + 1]
             ELSE [t EXCEPT !.str = @ + 1]
    ELSE [t EXCEPT !.str = @ + 1]

QuotesStep(s, t) ==
    IF At(s, t.str) \in {34, 39}                     \* '"', '\''
    THEN LET quote == At(s, t.str)
             temp  == FindClose(s, t.str + 1, quote)
         IN  IF At(s, temp) = quote
             THEN [t EXCEPT !.count = @ + 1, !.str = temp + 1]
             ELSE [t EXCEPT !.str = @ + 1]
    ELSE [t EXCEPT !.str = @ + 1]

CasesStep(s, t) ==
    IF isupper(At(s, t.str))
    THEN [t EXCEPT !.upper = @ + 1, !.str = @ + 1]
    ELSE IF islower(At(s, t.str))
         THEN [t EXCEPT !.lower = @ + 1, !.str = @ + 1]
         ELSE [t EXCEPT !.str = @ + 1]

Step(k, s, t) ==
    CASE k = "letters"   -> LettersStep(s, t)
      [] k = "numbers"   -> NumbersStep(s, t)
      [] k = "sentences" -> SentencesStep(s, t)
      [] k = "special"   -> SpecialStep(s, t)
      [] k = "words"     -> WordsStep(s, t)
      [] k = "quotes"    -> QuotesStep(s, t)
      [] k = "cases"     -> CasesStep(s, t)

\* A whole call: while (*str) { one step }, then the return.
RECURSIVE Run(_, _, _)
Run(k, s, t) == IF At(s, t.str) = 0 THEN t ELSE Run(k, s, Step(k, s, t))

countLetters(s)      == Run("letters", s, ScanInit).count
countNumbers(s)      == Run("numbers", s, ScanInit).count
countSentences(s)    == Run("sentences", s, ScanInit).count
countSpecialSigns(s) == Run("special", s, ScanInit).count
countWords(s)        == Run("words", s, ScanInit).count
countQuotes(s)       == Run("quotes", s, ScanInit).count
countCases(s)        == LET t == Run("cases", s, ScanInit)
                        IN  [upper |-> t.upper, lower |-> t.lower]

-----------------------------------------------------------------------------
(* fastStrLen.  Memory is a byte sequence whose first byte lies on an      *)
(* 8-byte boundary; offset p is the byte mem[p + 1].  A uint64_t load      *)
(* takes the eight bytes of one aligned chunk; the 64-bit arithmetic is    *)
(* carried out on those bytes, least significant first (the byte order of  *)
(* the x86-64 and AArch64 builds), with the borrow rippling upwards and    *)
(* the borrow out of the top byte dropped (wrap-around).                   *)

MemAt(m, p) == m[p + 1]

\* The string s placed at offset a, null-terminated, every other byte of
\* the chunks it touches holding g.
Layout(a, s, g) ==
    LET used  == a + Len(s) + 1
        total == 8 * ((used + 7) \div 8)
    IN  [k \in 1..total |->
            IF k <= a THEN g
            ELSE IF k <= a + Len(s) THEN s[k - a]
            ELSE IF k = a + Len(s) + 1 THEN 0
            ELSE g]

\* uint64_t chunk = *wordPtr, as its eight bytes in memory order
ChunkOf(m, w) == [k \in 1..8 |-> MemAt(m, 8 * w + k - 1)]

\* chunk - 0x0101010101010101ULL (mod 2^64), byte by byte from byte k on,
\* with the borrow coming into byte k
RECURSIVE SubFrom(_, _, _)
SubFrom(chunk, k, borrow) ==
    IF k > 8 THEN <<>>
    ELSE LET d == chunk[k] - 1 - borrow
         IN  <<(d + 256) % 256>>
             \o SubFrom(chunk, k + 1, IF d < 0 THEN 1 ELSE 0)

SubOnes(chunk) == SubFrom(chunk, 1, 0)

\* bit 7 of a byte: the only bit 0x8080808080808080 keeps
HighBit(b) == (b \div 128) % 2 = 1

\* A mutant: the "& ~chunk" factor is dropped.
HasZero_noAndNot(chunk) ==
    LET diff == SubOnes(chunk)
    IN  \E k \in 1..8 : HighBit(diff[k])

\* (chunk - 0x0101010101010101ULL) & ~chunk & 0x8080808080808080ULL, as a
\* truth value
HasZero(chunk) ==
    LET diff == SubOnes(chunk)
    IN  \E k \in 1..8 : HighBit(diff[k]) /\ ~HighBit(chunk[k])

\* while (*str) str++;   (stops at the end of the modelled memory)
RECURSIVE Rescan(_, _)
Rescan(m, p) ==
    IF p < Len(m) /\ MemAt(m, p) # 0 THEN Rescan(m, p + 1) ELSE p

\* const char *start = str;  and the locals before the first loop
LenInit(a) == [pc |-> "align", str |-> a, wordPtr |-> 0, chunk |-> <<>>,
               ret |-> 0]

\* One iteration of  while ((uintptr_t)str % sizeof(uint64_t))
AlignIter(m, a, t) ==
    IF MemAt(m, t.str) = 0
    THEN [t EXCEPT !.pc = "done", !.ret = t.str - a]
    ELSE [t EXCEPT !.str = @ + 1]

\* const uint64_t *wordPtr = (const uint64_t *)str;
AlignDone(m, a, t) == [t EXCEPT !.pc = "chunk", !.wordPtr = t.str \div 8]

\* One iteration of while (1): load, test, and on a hit rescan and return.
\* A load past the modelled memory is a fault (the read is out of bounds).
ChunkIter(m, a, t) ==
    IF 8 * t.wordPtr + 8 > Len(m)
    THEN [t EXCEPT !.pc = "fault"]
    ELSE LET chunk == ChunkOf(m, t.wordPtr)
             next  == t.wordPtr + 1
         IN  IF HasZero(chunk)
             THEN LET str == Rescan(m, 8 * (next - 1))
                  IN  IF str < Len(m)
                      THEN [t EXCEPT !.pc = "done", !.chunk = chunk,
                                     !.wordPtr = next, !.str = str,
                                     !.ret = str - a]
                      ELSE [t EXCEPT !.pc = "fault", !.chunk = chunk,
                                     !.wordPtr = next, !.str = str]
             ELSE [t EXCEPT !.chunk = chunk, !.wordPtr = next]

LenStep(m, a, t) ==
    IF t.pc = "align"
    THEN IF t.str % 8 # 0 THEN AlignIter(m, a, t) ELSE AlignDone(m, a, t)
    ELSE ChunkIter(m, a, t)

RECURSIVE LenRun(_, _, _)
LenRun(m, a, t) ==
    IF t.pc \in {"done", "fault"} THEN t ELSE LenRun(m, a, LenStep(m, a, t))

\* fastStrLen(str) for a string at offset a of memory m
fastStrLenAt(m, a) == LenRun(m, a, LenInit(a)).ret

\* fastStrLen(arg) in main: the argument at the start of a chunk, the rest
\* of its last chunk zero (the result does not depend on either: C9).
fastStrLen(s) == fastStrLenAt(Layout(0, s, 0), 0)

-----------------------------------------------------------------------------
(* main.  argv[k] is C's argv[k] for k >= 1; argc = Len(argv) + 1.         *)

argc == Len(argv) + 1

OptLetters     == <<45, 45, 99, 111, 117, 110, 116, 45, 108, 101, 116, 116,
                    101, 114, 115>>
OptCases       == <<45, 45, 99, 111, 117, 110, 116, 45, 99, 97, 115, 101,
                    115>>
OptNumbers     == <<45, 45, 99, 111, 117, 110, 116, 45, 110, 117, 109, 98,
                    101, 114, 115>>
OptSentences   == <<45, 45, 99, 111, 117, 110, 116, 45, 115, 101, 110, 116,
                    101, 110, 99, 101, 115>>
OptSpecial     == <<45, 45, 99, 111, 117, 110, 116, 45, 115, 112, 101, 99,
                    105, 97, 108, 45, 115, 105, 103, 110, 115>>
OptFileContent == <<45, 45, 99, 111, 117, 110, 116, 45, 102, 105, 108, 101,
                    99, 111, 110, 116, 101, 110, 116>>
OptWords       == <<45, 45, 99, 111, 117, 110, 116, 45, 119, 111, 114, 100,
                    115>>
OptBytes       == <<45, 45, 99, 111, 117, 110, 116, 45, 98, 121, 116, 101,
                    115>>
OptQuotes      == <<45, 45, 99, 111, 117, 110, 116, 45, 113, 117, 111, 116,
                    101, 115>>
OptHelp        == <<45, 45, 104, 101, 108, 112>>
OptH           == <<45, 45, 104>>

\* strncmp(a, b, n) == 0
strncmpEq(a, b, n) ==
    \A k \in 0..(n - 1) :
        (\A j \in 0..(k - 1) : At(a, j) # 0) => At(a, k) = At(b, k)

\* strcmp(a, b) == 0
strcmpEq(a, b) == a = b

FlagsInit ==
    [countLettersFlag |-> 0, countCasesFlag |-> 0, countNumbersFlag |-> 0,
     countSentencesFlag |-> 0, countSpecialFlag |-> 0,
     countFileContentFlag |-> 0, countWordsFlag |-> 0, countBytesFlag |-> 0,
     countQuotesFlag |-> 0]

\* The flag the strcmp chain of the option loop sets for arg, "" for none.
FlagFor(arg) ==
    IF strcmpEq(arg, OptLetters) THEN "countLettersFlag"
    ELSE IF strcmpEq(arg, OptCases) THEN "countCasesFlag"
    ELSE IF strcmpEq(arg, OptNumbers) THEN "countNumbersFlag"
    ELSE IF strcmpEq(arg, OptSentences) THEN "countSentencesFlag"
    ELSE IF strcmpEq(arg, OptSpecial) THEN "countSpecialFlag"
    ELSE IF strcmpEq(arg, OptFileContent) THEN "countFileContentFlag"
    ELSE IF strcmpEq(arg, OptWords) THEN "countWordsFlag"
    ELSE IF strcmpEq(arg, OptBytes) THEN "countBytesFlag"
    ELSE IF strcmpEq(arg, OptQuotes) THEN "countQuotesFlag"
    ELSE ""

Out(kind, n) == [kind |-> kind, n |-> n]

\* printf of the header; if (argc < 2) { showHelp(); return 0; }; the
\* flag locals and firstArgIndex = 1.
MainStart ==
    /\ pc = "start"
    /\ IF argc < 2
       THEN /\ stdout' = stdout \o <<Out("header", 0), Out("help", 0)>>
            /\ status' = 0
            /\ pc' = "exit"
            /\ UNCHANGED <<flags, firstArgIndex>>
       ELSE /\ stdout' = Append(stdout, Out("header", 0))
            /\ flags' = FlagsInit
            /\ firstArgIndex' = 1
            /\ pc' = "parse"
            /\ UNCHANGED status
    /\ UNCHANGED <<argv, i, stderr, reports, scanVars, lenVars>>

\* A mutant: an unrecognised option ends option parsing like a first
\* non-option argument.
ParseStep_unknownIsArgument ==
    /\ pc = "parse"
    /\ IF firstArgIndex < argc
       THEN LET arg == argv[firstArgIndex]
            IN  IF ~strncmpEq(arg, <<45, 45>>, 2)
                THEN /\ pc' = "count"
                     /\ UNCHANGED <<flags, firstArgIndex, stdout, stderr, status>>
                ELSE IF FlagFor(arg) # ""
                THEN /\ flags' = [flags EXCEPT ![FlagFor(arg)] = 1]
                     /\ firstArgIndex' = firstArgIndex + 1
                     /\ UNCHANGED <<pc, stdout, stderr, status>>
                ELSE IF strcmpEq(arg, OptHelp) \/ strcmpEq(arg, OptH)
                THEN /\ stdout' = Append(stdout, Out("help", 0))
                     /\ status' = 0
                     /\ pc' = "exit"
                     /\ UNCHANGED <<flags, firstArgIndex, stderr>>
                ELSE /\ pc' = "count"
                     /\ UNCHANGED <<flags, firstArgIndex, stdout, stderr, status>>
       ELSE /\ pc' = "count"
            /\ UNCHANGED <<flags, firstArgIndex, stdout, stderr, status>>
    /\ UNCHANGED <<argv, i, reports, scanVars, lenVars>>

\* A mutant: the alias --h is not recognised.
ParseStep_noAlias ==
    /\ pc = "parse"
    /\ IF firstArgIndex < argc
       THEN LET arg == argv[firstArgIndex]
            IN  IF ~strncmpEq(arg, <<45, 45>>, 2)
                THEN /\ pc' = "count"
                     /\ UNCHANGED <<flags, firstArgIndex, stdout, stderr, status>>
                ELSE IF FlagFor(arg) # ""
                THEN /\ flags' = [flags EXCEPT ![FlagFor(arg)] = 1]
                     /\ firstArgIndex' = firstArgIndex + 1
                     /\ UNCHANGED <<pc, stdout, stderr, status>>
                ELSE IF strcmpEq(arg, OptHelp)
                THEN /\ stdout' = Append(stdout, Out("help", 0))
                     /\ status' = 0
                     /\ pc' = "exit"
                     /\ UNCHANGED <<flags, firstArgIndex, stderr>>
                ELSE /\ stderr' = Append(stderr, arg)
                     /\ status' = 1
                     /\ pc' = "exit"
                     /\ UNCHANGED <<flags, firstArgIndex, stdout>>
       ELSE /\ pc' = "count"
            /\ UNCHANGED <<flags, firstArgIndex, stdout, stderr, status>>
    /\ UNCHANGED <<argv, i, reports, scanVars, lenVars>>

\* One iteration of the option loop
\*   for (; firstArgIndex < argc; firstArgIndex++)
\* or its end (the loop condition fails, or the break).
ParseStep ==
    /\ pc = "parse"
    /\ IF firstArgIndex < argc
       THEN LET arg == argv[firstArgIndex]
            IN  IF ~strncmpEq(arg, <<45, 45>>, 2)
                THEN /\ pc' = "count"                          \* break
                     /\ UNCHANGED <<flags, firstArgIndex, stdout, stderr, status>>
                ELSE IF FlagFor(arg) # ""
                THEN /\ flags' = [flags EXCEPT ![FlagFor(arg)] = 1]
                     /\ firstArgIndex' = firstArgIndex + 1
                     /\ UNCHANGED <<pc, stdout, stderr, status>>
                ELSE IF strcmpEq(arg, OptHelp) \/ strcmpEq(arg, OptH)
                THEN /\ stdout' = Append(stdout, Out("help", 0))   \* showHelp()
                     /\ status' = 0                            \* return 0
                     /\ pc' = "exit"
                     /\ UNCHANGED <<flags, firstArgIndex, stderr>>
                ELSE /\ stderr' = Append(stderr, arg)          \* Unknown option
                     /\ status' = 1                            \* return 1
                     /\ pc' = "exit"
                     /\ UNCHANGED <<flags, firstArgIndex, stdout>>
       ELSE /\ pc' = "count"
            /\ UNCHANGED <<flags, firstArgIndex, stdout, stderr, status>>
    /\ UNCHANGED <<argv, i, reports, scanVars, lenVars>>

\* int numArgs = argc - firstArgIndex; the "Argument(s) given" line; and
\* int i = firstArgIndex of the report loop.
CountLine ==
    /\ pc = "count"
    /\ stdout' = Append(stdout, Out("count", argc - firstArgIndex))
    /\ i' = firstArgIndex
    /\ pc' = "process"
    /\ UNCHANGED <<argv, flags, firstArgIndex, stderr, reports, status,
                   scanVars, lenVars>>

\* What the file system answers for a path: whether access(path, F_OK)
\* succeeds, whether fopen(path, "rb") succeeds, and the size in bytes of
\* the file's content (what fseek/ftell give for a regular file).
\* The answers drawn: no such file; a file that exists but cannot be opened
\* (five bytes of content, no read permission); a readable regular file,
\* empty or of five bytes.  The empty path names no file.
FileSizes == {0, 5}
Absent     == [exists |-> FALSE, opens |-> FALSE, size |-> 0]
Unreadable == [exists |-> TRUE, opens |-> FALSE, size |-> 5]
Probes(path) ==
    IF path = <<>> THEN {Absent}
    ELSE {Absent, Unreadable}
         \cup [exists : {TRUE}, opens : {TRUE}, size : FileSizes]

isFilePath(f) == f.exists

getFileContentLength(f) == IF ~f.opens THEN 0 ELSE f.size

\* snprintf(preview, sizeof(preview), "%.8s...", arg) or "%s"
Preview(arg) ==
    IF fastStrLen(arg) > 8
    THEN SubSeq(arg, 1, 8) \o <<46, 46, 46>>
    ELSE arg

\* The metric lines printed for arg under the flags fl, by name.
MetricLines(arg, fl, length) ==
    LET names ==
            {n \in {"Letters"} : fl.countLettersFlag = 1}
            \cup {n \in {"Uppercase", "Lowercase"} :
                     fl.countLettersFlag = 1 /\ fl.countCasesFlag = 1}
            \cup {n \in {"Numbers"} : fl.countNumbersFlag = 1}
            \cup {n \in {"Sentences"} : fl.countSentencesFlag = 1}
            \cup {n \in {"Special Signs"} : fl.countSpecialFlag = 1}
            \cup {n \in {"Words"} : fl.countWordsFlag = 1}
            \cup {n \in {"Bytes"} : fl.countBytesFlag = 1}
            \cup {n \in {"Quotes"} : fl.countQuotesFlag = 1}
    IN  [n \in names |->
            CASE n = "Letters"       -> countLetters(arg)
              [] n = "Uppercase"     -> countCases(arg).upper
              [] n = "Lowercase"     -> countCases(arg).lower
              [] n = "Numbers"       -> countNumbers(arg)
              [] n = "Sentences"     -> countSentences(arg)
              [] n = "Special Signs" -> countSpecialSigns(arg)
              [] n = "Words"         -> countWords(arg)
              [] n = "Bytes"         -> length
              [] n = "Quotes"        -> countQuotes(arg)]

\* One iteration of the report loop for argv[i].  The record kept in
\* reports holds what is printed (index, preview, the File marker, Length,
\* the metric lines) and, for reference, the argument and what the file
\* system answered.
ProcessArg ==
    /\ pc = "process"
    /\ i < argc
    /\ \E f \in Probes(argv[i]) :
         LET arg    == argv[i]
             isFile == isFilePath(f)
             length == IF isFile /\ flags.countFileContentFlag = 1
                       THEN getFileContentLength(f)
                       ELSE fastStrLen(arg)
         IN  /\ reports' = Append(reports,
                    [index |-> i - firstArgIndex + 1, preview |-> Preview(arg),
                     isFile |-> isFile, length |-> length,
                     lines |-> MetricLines(arg, flags, length),
                     arg |-> arg, probe |-> f])
             /\ stdout' = Append(stdout, Out("report", i - firstArgIndex + 1))
    /\ i' = i + 1
    /\ UNCHANGED <<argv, pc, flags, firstArgIndex, stderr, status,
                   scanVars, lenVars>>

\* The report loop ends; return 0.
MainReturn ==
    /\ pc = "process"
    /\ ~(i < argc)
    /\ status' = 0
    /\ pc' = "exit"
    /\ UNCHANGED <<argv, flags, firstArgIndex, i, stdout, stderr, reports,
                   scanVars, lenVars>>

-----------------------------------------------------------------------------
(* The scanner and fastStrLen calls as state machines.                     *)

ScanIter(k) ==
    /\ spc = "scan"
    /\ scanner = k
    /\ At(S, st.str) # 0                              \* while (*str)
    /\ st' = Step(k, S, st)
    /\ UNCHANGED <<scanner, S, spc, lenVars, mainVars>>

LettersIter   == ScanIter("letters")
NumbersIter   == ScanIter("numbers")
SentencesIter == ScanIter("sentences")
SpecialIter   == ScanIter("special")
WordsIter     == ScanIter("words")
QuotesIter    == ScanIter("quotes")
CasesIter     == ScanIter("cases")

\* The loop condition fails: return count (or leave *upper, *lower).
ScanReturn ==
    /\ spc = "scan"
    /\ At(S, st.str) = 0
    /\ spc' = "done"
    /\ UNCHANGED <<scanner, S, st, lenVars, mainVars>>

LenAlignIter ==
    /\ ls.pc = "align"
    /\ ls.str % 8 # 0
    /\ ls' = AlignIter(mem, start, ls)
    /\ UNCHANGED <<mem, start, scanVars, mainVars>>

LenAlignDone ==
    /\ ls.pc = "align"
    /\ ls.str % 8 = 0
    /\ ls' = AlignDone(mem, start, ls)
    /\ UNCHANGED <<mem, start, scanVars, mainVars>>

LenChunkIter ==
    /\ ls.pc = "chunk"
    /\ ls' = ChunkIter(mem, start, ls)
    /\ UNCHANGED <<mem, start, scanVars, mainVars>>

-----------------------------------------------------------------------------
(* Initial states and specifications.                                      *)

ScanIdle == scanner = "none" /\ S = <<>> /\ st = ScanInit /\ spc = "idle"
LenIdle  == mem = <<>> /\ start = 0 /\ ls = [LenInit(0) EXCEPT !.pc = "idle"]
MainIdle ==
    /\ argv = <<>> /\ pc = "idle" /\ flags = FlagsInit /\ firstArgIndex = 0
    /\ i = 0 /\ stdout = <<>> /\ stderr = <<>> /\ reports = <<>>
    /\ status = "running"

\* Input alphabets
QuoteBytes   == {39, 34, 97}                    \* ' " a
SentBytes    == {46, 63, 33, 39, 34, 97}        \* . ? ! ' " a
WordBytes    == {9, 10, 11, 12, 13, 32, 97, 160}
ScanBytes    == {97, 65, 49, 32, 46, 34}        \* a A 1 space . "
\* Strings for fastStrLen mix two byte values, one below 0x80 and one not:
\* 0x01 and 0xFF, or 0x7F and 0x80.
BytePairs    == {{1, 255}, {127, 128}}
GarbageBytes == {0, 1, 128, 255}
Scanners     == {"letters", "numbers", "sentences", "special", "words",
                 "quotes", "cases"}

ScanStart(k, alphabet, n) ==
    /\ scanner = k
    /\ S \in Strings(alphabet, n)
    /\ st = ScanInit
    /\ spc = "scan"
    /\ LenIdle /\ MainIdle

InitQuotes    == ScanStart("quotes", QuoteBytes, MaxQuoteLen)
NextQuotes    == QuotesIter \/ ScanReturn
SpecQuotes    == InitQuotes /\ [][NextQuotes]_vars

InitSentences == ScanStart("sentences", SentBytes, MaxSentLen)
NextSentences == SentencesIter \/ ScanReturn
SpecSentences == InitSentences /\ [][NextSentences]_vars

InitWords     == ScanStart("words", WordBytes, MaxWordLen)
NextWords     == WordsIter \/ ScanReturn
SpecWords     == InitWords /\ [][NextWords]_vars

InitScan      == \E k \in Scanners : ScanStart(k, ScanBytes, MaxScanLen)
NextScan      == \/ LettersIter \/ NumbersIter \/ SentencesIter
                 \/ SpecialIter \/ WordsIter \/ QuotesIter \/ CasesIter
                 \/ ScanReturn
\* A call, once made, runs to its return: the program is single-threaded
\* and nothing pre-empts a scanner for good.
FairScan      == InitScan /\ [][NextScan]_vars /\ WF_vars(NextScan)

InitLen ==
    /\ start \in 0..7
    /\ \E pair \in BytePairs :
         \E s \in Strings(pair, MaxStrLen), g \in GarbageBytes :
             mem = Layout(start, s, g)
    /\ ls = LenInit(start)
    /\ ScanIdle /\ MainIdle
NextLen == LenAlignIter \/ LenAlignDone \/ LenChunkIter
SpecLen == InitLen /\ [][NextLen]_vars

Bogus     == <<45, 45, 98, 111, 103, 117, 115>>                 \* --bogus
TextShort == <<97, 98>>                                         \* ab
TextLong  == <<108, 111, 110, 103, 45, 110, 97, 109, 101, 46, 116, 120,
               116>>                                            \* long-name.txt
Tokens    == {OptFileContent, OptBytes, OptHelp, OptH, Bogus, TextShort,
              TextLong}

Init ==
    /\ argv \in Strings(Tokens, MaxArgs)
    /\ pc = "start"
    /\ flags = FlagsInit /\ firstArgIndex = 0 /\ i = 0
    /\ stdout = <<>> /\ stderr = <<>> /\ reports = <<>>
    /\ status = "running"
    /\ ScanIdle /\ LenIdle
Next == MainStart \/ ParseStep \/ CountLine \/ ProcessArg \/ MainReturn
Spec == Init /\ [][Next]_vars

-----------------------------------------------------------------------------
(* Vocabulary of the claims about main.                                    *)

CountOptions ==
    {OptLetters, OptCases, OptNumbers, OptSentences, OptSpecial,
     OptFileContent, OptWords, OptBytes, OptQuotes}
IsHelp(arg)       == arg \in {OptHelp, OptH}
StartsDashed(arg) == Len(arg) >= 2 /\ arg[1] = 45 /\ arg[2] = 45
IsUnrecognised(arg) ==
    StartsDashed(arg) /\ arg \notin CountOptions /\ ~IsHelp(arg)

Kinds(out)   == [k \in 1..Len(out) |-> out[k].kind]
Printed(kind) == \E k \in 1..Len(stdout) : stdout[k].kind = kind
Exited       == pc = "exit"

\* the command line holds nothing but recognised --count-* options
OnlyCountOptions == \A k \in 1..Len(argv) : argv[k] \in CountOptions

\* argv[k] lies in the leading run of arguments starting with "--"
InLeadingRun(k) == \A j \in 1..k : StartsDashed(argv[j])

\* an unrecognised option in the leading run, no --help/--h before it
UnknownBeforeHelp ==
    \E k \in 1..Len(argv) :
        /\ InLeadingRun(k)
        /\ IsUnrecognised(argv[k])
        /\ \A j \in 1..(k - 1) : ~IsHelp(argv[j])

\* argv[k] is --help or --h with only recognised options before it
HelpAt(k) ==
    /\ IsHelp(argv[k])
    /\ \A j \in 1..(k - 1) : argv[j] \in CountOptions

-----------------------------------------------------------------------------
(* Claims *)

\* C1: a run whose command line holds no non-option argument (nothing at
\* all, or recognised --count-* options only) prints the help text, exits
\* with status 0 and prints neither the argument-count line nor a report.
C1_NoArgumentsIsHelp ==
    (Exited /\ OnlyCountOptions) =>
        /\ status = 0
        /\ Printed("help")
        /\ ~Printed("count")
        /\ ~Printed("report")

\* C2: with the file-content metric enabled, an argument whose existence
\* probe succeeds but whose file cannot be opened is reported with the
\* byte length of its own text.
C2_UnreadableFallsBackToText ==
    \A k \in 1..Len(reports) :
        (/\ flags.countFileContentFlag = 1
         /\ reports[k].probe.exists
         /\ ~reports[k].probe.opens)
        => reports[k].length = Len(reports[k].arg)

\* C3: an unrecognised option in the leading run of "--" arguments, with no
\* --help/--h before it, never lets a per-argument report be printed, and
\* the run ends with a message on standard error and exit status 1.
C3_UnknownOptionFails ==
    UnknownBeforeHelp =>
        /\ reports = <<>>
        /\ ~Printed("report")
        /\ Exited => (status = 1 /\ stderr # <<>>)

C3_Witness ==
    /\ Exited
    /\ argv = <<OptBytes, Bogus, TextShort>>
    /\ stderr = <<Bogus>>

\* C4: --help or --h with only recognised options before it ends the run
\* at once: the output is the header and the usage text, the status is 0,
\* nothing goes to standard error, no count line and no report is printed,
\* and no argument after it is parsed (the option loop stopped at it and
\* only the options before it set their flags).
C4_HelpExitsAtOnce ==
    \A k \in 1..Len(argv) :
        HelpAt(k) =>
            /\ reports = <<>>
            /\ ~Printed("count")
            /\ ~Printed("report")
            /\ stderr = <<>>
            /\ Exited =>
                 /\ status = 0
                 /\ Kinds(stdout) = <<"header", "help">>
                 /\ firstArgIndex = k
                 /\ \A n \in DOMAIN flags :
                        flags[n] = 1 <=>
                            \E j \in 1..(k - 1) : FlagFor(argv[j]) = n

C4_Witness ==
    /\ Exited
    /\ argv = <<OptFileContent, OptH, Bogus>>
    /\ Kinds(stdout) = <<"header", "help">>

\* C5: the reported effective length is the file's content length when the
\* argument names an existing file and the file-content metric is enabled,
\* and the byte length of the argument text in every other case.
C5_EffectiveLength ==
    \A k \in 1..Len(reports) :
        reports[k].length =
            IF reports[k].probe.exists /\ flags.countFileContentFlag = 1
            THEN reports[k].probe.size
            ELSE Len(reports[k].arg)

\* The greedy left-to-right rule of C6, from position p (1-based) on.
RECURSIVE GreedySegments(_, _)
GreedySegments(s, p) ==
    IF p > Len(s) THEN 0
    ELSE IF s[p] \notin {39, 34} THEN GreedySegments(s, p + 1)
    ELSE LET closers == {j \in (p + 1)..Len(s) : s[j] = s[p]}
         IN  IF closers = {}
             THEN GreedySegments(s, p + 1)
             ELSE LET close == CHOOSE j \in closers :
                                   \A j2 \in closers : j <= j2
                  IN  1 + GreedySegments(s, close + 1)

\* C6: countQuotes returns the number of segments the greedy left-to-right
\* rule finds: a quote with a later quote of the same kind makes one
\* segment and scanning resumes after the closer; a quote with no later
\* quote of its kind counts nothing and scanning resumes right after it.
C6_QuotesGreedy ==
    (scanner = "quotes" /\ spc = "done") => st.count = GreedySegments(S, 1)

C6_Witness ==
    /\ scanner = "quotes" /\ spc = "done"
    /\ S = <<34, 39, 97, 39, 34, 39>>
    /\ st.count = 1

\* C7: countSentences returns the number of bytes that are '.', '?' or '!'.
C7_SentencesCountTerminators ==
    (scanner = "sentences" /\ spc = "done") =>
        st.count = Cardinality({k \in 1..Len(S) : S[k] \in {46, 63, 33}})

C7_Witness ==
    /\ scanner = "sentences" /\ spc = "done"
    /\ S = <<46, 34, 63, 33>>
    /\ st.count = 3

\* whitespace, as C8 lists it: space, tab, newline, carriage return,
\* vertical tab, form feed
IsBlank(c) == c \in {32, 9, 10, 13, 11, 12}

\* C8: countWords returns the number of maximal runs of non-whitespace
\* bytes.
C8_WordsCountRuns ==
    (scanner = "words" /\ spc = "done") =>
        st.count = Cardinality({k \in 1..Len(S) :
                        ~IsBlank(S[k]) /\ (k = 1 \/ IsBlank(S[k - 1]))})

C8_Witness ==
    /\ scanner = "words" /\ spc = "done"
    /\ S = <<32, 97, 9, 97>>
    /\ st.count = 2

\* offset of the first zero byte at or after offset a
FirstZero(m, a) ==
    CHOOSE p \in a..(Len(m) - 1) :
        m[p + 1] = 0 /\ \A q \in a..(p - 1) : m[q + 1] # 0

\* C9: for every alignment of the first byte, fastStrLen returns the index
\* of the first zero byte; a loaded chunk makes the word test fire exactly
\* when it holds a zero byte; no load goes past the chunk of the
\* terminator; and the rescan of a flagged chunk ends inside that chunk.
C9_FastStrLenExact ==
    /\ ls.pc # "fault"
    /\ ls.chunk # <<>> =>
         ((ls.pc = "done") <=> (\E k \in 1..8 : ls.chunk[k] = 0))
    /\ ls.pc = "done" =>
         /\ ls.ret = FirstZero(mem, start) - start
         /\ ls.chunk # <<>> =>
              (8 * (ls.wordPtr - 1) <= ls.str /\ ls.str < 8 * ls.wordPtr)

C9_Witness ==
    /\ ls.pc = "done"
    /\ start = 7
    /\ ls.wordPtr = 3
    /\ ls.ret = 9

\* C10: every scanner's call returns; while it runs the scan position
\* never exceeds the length of the text (it never passes the null), and
\* every iteration moves it strictly forward.
C10_ScannersTerminate ==
    /\ [](spc # "idle" => st.str <= Len(S))
    /\ [][spc' = "scan" => st'.str > st.str]_vars
    /\ <>(spc = "done")

C10_Witness ==
    /\ scanner = "sentences" /\ spc = "done"
    /\ S = <<97, 46, 34>>
    /\ st.str = 3

=============================================================================
